---- MODULE Spec2Model ----
(***************************************************************************)
(* rusty-short: link resolution (cache-aside over a durable store), key    *)
(* generation, and detached click capture.                                 *)
(*                                                                         *)
(* Request handlers are processes whose steps are the await points of the  *)
(* handler and of the LinkService method it calls; the capture task that a *)
(* redirect spawns is a task record with its own steps.  Spec runs the     *)
(* operations one at a time, SpecConc interleaves their steps.             *)
(***************************************************************************)
EXTENDS Integers, Sequences, FiniteSets, TLC

\* ------------------------------------------------------------------ bounds
NProcs == 2
MaxOps == 3
MaxConcOps == 3
MaxTtlOps == 3
MaxSummaryOps == 3
MaxIpOps == 3
MaxWindowOps == 3
MaxRaceOps == 3
MaxTime == 2
CacheTtl == 2
TicksPerDay == 1

\* ------------------------------------------------------- program constants
DEFAULT_KEY_LENGTH == 7
CUSTOM_ALIAS_MAX_LENGTH == 10
MAX_URL_LENGTH == 2048
MaxAttempts == 10
Sha256Bytes == 32
MaxListLimit == 100
MaxDays == 365
TopN == 10
DefaultDays == 30

\* ------------------------------------------------------------ Option<T>
None == <<>>
Some(x) == <<x>>
IsSome(o) == o # <<>>
Unwrap(o) == o[1]

\* ------------------------------------------------------------------ inputs
\* A URL string is described by its byte length and by what Url::parse makes
\* of it: nothing, or a scheme and an optional host.
UrlA == [text |-> "http://a.example/x", len |-> 18,
         parse |-> Some([scheme |-> "http", host |-> Some("a.example")])]
UrlB == [text |-> "https://b.example/y", len |-> 19,
         parse |-> Some([scheme |-> "https", host |-> Some("b.example")])]
UrlFtp == [text |-> "ftp://example.com", len |-> 17,
           parse |-> Some([scheme |-> "ftp", host |-> Some("example.com")])]
UrlLong == [text |-> "http://a.example/xxx...", len |-> 2049,
            parse |-> Some([scheme |-> "http", host |-> Some("a.example")])]
UrlGarbage == [text |-> "not a url", len |-> 9, parse |-> None]
UrlNoHost == [text |-> "unix:/run/x", len |-> 11,
              parse |-> Some([scheme |-> "unix", host |-> None])]

ValidUrls == {UrlA, UrlB}
InvalidUrls == {UrlFtp, UrlLong, UrlGarbage, UrlNoHost}

\* Keys and aliases are sequences of characters.
AlnumChars == {"a", "b", "k", "e", "y", "0", "1", "2"}
AliasK == <<"k", "e", "y", "0", "0", "0", "1">>
AliasEmpty == <<>>
AliasBang == <<"a", "!">>
AliasLong == <<"a", "a", "a", "a", "a", "a", "a", "a", "a", "a", "a">>
GenKey1 == <<"k", "e", "y", "0", "0", "0", "1">>
GenKey2 == <<"k", "e", "y", "0", "0", "0", "2">>

ValidAliases == {AliasK}
InvalidAliases == {AliasEmpty, AliasBang, AliasLong}
\* what nanoid!(DEFAULT_KEY_LENGTH, SAFE) can draw in this model
GenKeys == {k \in {GenKey1, GenKey2} : Len(k) = DEFAULT_KEY_LENGTH}
Keys == ValidAliases \cup GenKeys
AllKeys == Keys \cup InvalidAliases

ExpiresIn == {None, Some(-1), Some(1)}

\* A header is absent (None) or present; the value of a present header is
\* text (to_str succeeds) or bytes that are not visible ASCII (to_str fails).
\* Text is a sequence of characters; an address is written with one digit.
HeaderText(chars) == Some([text |-> Some(chars)])
HeaderOpaque == Some([text |-> None])
to_str(v) == v.text

XffValues == {None, HeaderOpaque, HeaderText(<<"1">>),
              HeaderText(<<"1", ",", " ", "2">>), HeaderText(<<" ", "2", " ", ",", "1">>),
              HeaderText(<<>>)}
XriValues == {None, HeaderOpaque, HeaderText(<<"4">>), HeaderText(<<"1">>)}

\* what woothee's Parser::parse makes of a User-Agent string
UaChrome == [s |-> "Mozilla/5.0 ... Chrome/120", 
             woothee |-> Some([name |-> "Chrome", os |-> "Windows 10", category |-> "pc"])]
UaPhone == [s |-> "Mozilla/5.0 (iPhone ...) Safari", 
            woothee |-> Some([name |-> "Safari", os |-> "iPhone", category |-> "smartphone"])]
UaBot == [s |-> "Googlebot/2.1", 
          woothee |-> Some([name |-> "Googlebot", os |-> "UNKNOWN", category |-> "crawler"])]
UaOdd == [s |-> "curl/8", 
          woothee |-> Some([name |-> "UNKNOWN", os |-> "UNKNOWN", category |-> "UNKNOWN"])]
UaNone == [s |-> "", woothee |-> None]
UaValues == {None, HeaderOpaque, HeaderText(UaChrome), HeaderText(UaPhone),
             HeaderText(UaBot), HeaderText(UaOdd), HeaderText(UaNone)}

RefererValues == {None, HeaderOpaque, HeaderText("https://ref.example/"), HeaderText("")}

Headers(xff, xri, referer, ua) ==
    [xff |-> xff, xri |-> xri, referer |-> referer, user_agent |-> ua]
NoHeaders == Headers(None, None, None, None)

\* ---------------------------------------------------------------- results
Ok(v) == [ok |-> TRUE, val |-> v]
Err(m) == [ok |-> FALSE, err |-> m]

ErrUrlTooLong == "URL exceeds maximum length of 2048 characters"
ErrUrlFormat == "Invalid URL format"
ErrUrlScheme == "URL must use HTTP or HTTPS protocol"
ErrUrlHost == "URL must have a valid host"
ErrAliasEmpty == "Custom alias cannot be empty"
ErrAliasLong == "Custom alias exceeds maximum length of 10"
ErrAliasChars == "Custom alias can only contain alphanumeric characters, hyphens, and underscores"
ErrAliasExists == "Custom alias already exists"
ErrKeyGen == "Failed to generate unique key after 10 attempts"
ErrStore == "sqlx::Error"

ValidationErrors == {ErrUrlTooLong, ErrUrlFormat, ErrUrlScheme, ErrUrlHost,
                     ErrAliasEmpty, ErrAliasLong, ErrAliasChars}

\* ------------------------------------------------------------- validation
validate_url(u) ==
    IF u.len > MAX_URL_LENGTH THEN Err(ErrUrlTooLong)
    ELSE IF ~IsSome(u.parse) THEN Err(ErrUrlFormat)
    ELSE IF Unwrap(u.parse).scheme \notin {"http", "https"} THEN Err(ErrUrlScheme)
    ELSE IF ~IsSome(Unwrap(u.parse).host) THEN Err(ErrUrlHost)
    ELSE Ok(TRUE)

validate_custom_alias_nolen(alias) ==
    IF Len(alias) = 0 THEN Err(ErrAliasEmpty)
    ELSE IF \E i \in 1..Len(alias) : alias[i] \notin AlnumChars \cup {"-", "_"}
         THEN Err(ErrAliasChars)
    ELSE Ok(TRUE)

validate_custom_alias(alias) ==
    IF Len(alias) = 0 THEN Err(ErrAliasEmpty)
    ELSE IF Len(alias) > CUSTOM_ALIAS_MAX_LENGTH THEN Err(ErrAliasLong)
    ELSE IF \E i \in 1..Len(alias) : alias[i] \notin AlnumChars \cup {"-", "_"}
         THEN Err(ErrAliasChars)
    ELSE Ok(TRUE)

\* ------------------------------------------------------- AnalyticsService
\* the digest without the hex encoding: one character per byte
hash_ip_unencoded(ip) == [sha256_of |-> ip, len |-> Sha256Bytes]

\* hex::encode of the Sha256 digest of the address: two characters per byte,
\* a value determined by the address and by nothing else
hash_ip(ip) == [sha256_of |-> ip, len |-> 2 * Sha256Bytes]

parse_user_agent(ua) ==
    IF IsSome(ua.woothee)
    THEN LET r == Unwrap(ua.woothee) IN
         [browser |-> IF r.name # "UNKNOWN" THEN Some(r.name) ELSE None,
          os |-> IF r.os # "UNKNOWN" THEN Some(r.os) ELSE None,
          device_type |->
              CASE r.category = "pc" -> Some("desktop")
                [] r.category = "smartphone" -> Some("mobile")
                [] r.category = "mobilephone" -> Some("mobile")
                [] r.category = "appliance" -> Some("tablet")
                [] r.category = "crawler" -> Some("bot")
                [] OTHER -> Some("other")]
    ELSE [browser |-> None, os |-> None, device_type |-> None]

\* s.split(',').next(): the text before the first comma
SplitFirst(s) ==
    LET commas == {i \in 1..Len(s) : s[i] = ","} IN
    IF commas = {} THEN s
    ELSE SubSeq(s, 1, (CHOOSE i \in commas : \A j \in commas : i <= j) - 1)

\* str::trim
Trim(s) ==
    LET ns == {i \in 1..Len(s) : s[i] # " "} IN
    IF ns = {} THEN <<>>
    ELSE SubSeq(s, CHOOSE i \in ns : \A j \in ns : i <= j,
                   CHOOSE i \in ns : \A j \in ns : i >= j)

\* redirect_to_original: the address the ip_hash is taken from. A present
\* x-forwarded-for header decides alone: its first listed address, trimmed,
\* or nothing when to_str fails; x-real-ip is looked at only without it.
SelectedAddress(h) ==
    IF IsSome(h.xff)
    THEN IF IsSome(to_str(Unwrap(h.xff)))
         THEN Some(Trim(SplitFirst(Unwrap(to_str(Unwrap(h.xff))))))
         ELSE None
    ELSE IF IsSome(h.xri)
    THEN IF IsSome(to_str(Unwrap(h.xri)))
         THEN Some(Unwrap(to_str(Unwrap(h.xri))))
         ELSE None
    ELSE None

\* redirect_to_original: ip_hash
IpHash(h) ==
    LET a == SelectedAddress(h) IN
    IF IsSome(a) THEN Some(hash_ip(Unwrap(a))) ELSE None

\* headers.get(..).and_then(|v| v.to_str().ok())
HeaderString(v) == IF IsSome(v) THEN to_str(Unwrap(v)) ELSE None

\* ------------------------------------------------------------------- Link
is_expired_never(link, t) == FALSE

\* expired only once a whole tick has passed
is_expired_lenient(link, t) ==
    IF IsSome(link.expires_at) THEN Unwrap(link.expires_at) < t - 1 ELSE FALSE

is_expired(link, t) ==
    IF IsSome(link.expires_at) THEN Unwrap(link.expires_at) < t ELSE FALSE

\* ------------------------------------------------------------- LinkCache
EmptyCache == [k \in AllKeys |-> None]

\* an entry is served however old it is
CacheGetNoTtl(c, k, t) ==
    IF IsSome(c[k]) THEN Some(Unwrap(c[k]).link) ELSE None

CacheGet(c, k, t) ==
    IF IsSome(c[k]) /\ t - Unwrap(c[k]).at < CacheTtl
    THEN Some(Unwrap(c[k]).link) ELSE None

CacheSetNothing(c, k, link, t) == c

CacheSet(c, k, link, t) == [c EXCEPT ![k] = Some([link |-> link, at |-> t])]

CacheInvalidateNothing(c, k) == c

CacheInvalidate(c, k) == [c EXCEPT ![k] = None]

CacheClear(c) == [k \in DOMAIN c |-> None]

\* -------------------------------------------------------- LinkRepository
\* The links table enforces one row per key (the schema's constraint on
\* links.key): an INSERT of a key that is present fails.
KeyConstraintHolds(s, key) == ~\E r \in s : r.key = key

\* only rows without an expiry count
RepoExistsUnexpiring(s, key) == \E r \in s : r.key = key /\ r.expires_at = None

RepoExists(s, key) == \E r \in s : r.key = key

RepoFindAnyRow(s, key) ==
    IF s # {} THEN Some(CHOOSE r \in s : TRUE) ELSE None

RepoFindByKey(s, key) ==
    IF \E r \in s : r.key = key
    THEN Some(CHOOSE r \in s : r.key = key) ELSE None

RepoNewRow(id, key, url, expires_at) ==
    [id |-> id, key |-> key, original_url |-> url,
     expires_at |-> expires_at, click_count |-> 0]

\* writes back a count read before the other callers' updates
RepoIncrementOverwrite(s, key) ==
    {IF r.key = key THEN [r EXCEPT !.click_count = 1] ELSE r : r \in s}

\* increments every row
RepoIncrementAll(s, key) ==
    {[r EXCEPT !.click_count = @ + 1] : r \in s}

RepoIncrement(s, key) ==
    {IF r.key = key THEN [r EXCEPT !.click_count = @ + 1] ELSE r : r \in s}

RepoDeleteNothing(s, key) == s

RepoDelete(s, key) == {r \in s : r.key # key}


\* ------------------------------------------------------ response boundary
AppErrorInternal(msg) == [variant |-> "Internal", err |-> msg]
AppErrorNotFound == [variant |-> "NotFound", msg |-> "Link not found"]

into_response(e) ==
    IF e.variant = "Internal"
    THEN [status |-> 500, error |-> "Internal server error"]
    ELSE [status |-> 404, error |-> e.msg]

link_to_response(link) ==
    [key |-> link.key, original_url |-> link.original_url,
     expires_at |-> link.expires_at]

NoResp == [status |-> 0]
RespJson(body) == [status |-> 200, body |-> body]
RespRedirect(url) == [status |-> 308, location |-> url]
RespPng(short) == [status |-> 200, content_type |-> "image/png", qr_of |-> short]
RespNoContent == [status |-> 204]

\* ------------------------------------------------------------------ state
VARIABLES
    now,        \* the clock (Utc::now, NOW())
    links,      \* the links table
    nextId,     \* the next links.id the store hands out
    analytics,  \* the link_analytics table, in insertion order
    cache,      \* LinkCache: key -> Option<[link, at]>
    tasks,      \* the capture tasks spawned by redirects
    pc,         \* per handler: where it is
    req,        \* per handler: the request it serves
    loc,        \* per handler: its locals
    ret,        \* per handler: the response it returned
    trace,      \* per handler: the store and cache calls of this request
    nops,       \* requests started so far
    issued,     \* per key: creates that returned Ok with this key
    removed,    \* per key: deletes that removed a row with this key
    createdUrl, \* per key: the URL of the latest create that returned Ok
    cleared,    \* keys whose entry a clear() dropped since their create
    lastCreate  \* per key: the request, time and link of the latest create

vars == <<now, links, nextId, analytics, cache, tasks, pc, req, loc, ret,
          trace, nops, issued, removed, createdUrl, cleared, lastCreate>>

Procs == 1..NProcs

NoReq == [op |-> "none", rid |-> 0]
InitLoc == [key |-> None, link |-> None, attempt |-> 0,
            res |-> "pending", err |-> "", at |-> 0, sum |-> <<>>]

Call(name, out) == [call |-> name, out |-> out]

Init ==
    /\ now = 0
    /\ links = {}
    /\ nextId = 1
    /\ analytics = <<>>
    /\ cache = EmptyCache
    /\ tasks = <<>>
    /\ pc = [p \in Procs |-> "idle"]
    /\ req = [p \in Procs |-> NoReq]
    /\ loc = [p \in Procs |-> InitLoc]
    /\ ret = [p \in Procs |-> NoResp]
    /\ trace = [p \in Procs |-> <<>>]
    /\ nops = 0
    /\ issued = [k \in AllKeys |-> 0]
    /\ removed = [k \in AllKeys |-> 0]
    /\ createdUrl = [k \in AllKeys |-> None]
    /\ cleared = {}
    /\ lastCreate = [k \in AllKeys |-> None]

Idle(p) == pc[p] \in {"idle", "done"}

\* the handler's variables after a step
Upd(p, newpc, newloc, newret, newtrace) ==
    /\ pc' = [pc EXCEPT ![p] = newpc]
    /\ loc' = [loc EXCEPT ![p] = newloc]
    /\ ret' = [ret EXCEPT ![p] = newret]
    /\ trace' = [trace EXCEPT ![p] = newtrace]

\* the service call's result (res, err), and when it was produced
Result(p, res, err) == [loc[p] EXCEPT !.res = res, !.err = err, !.at = now]

\* the handler returns
Finish(p, newloc, response, newtrace) == Upd(p, "done", newloc, response, newtrace)

\* the handler returns Err(msg) through AppError::from
Fail(p, msg, newtrace) ==
    Finish(p, Result(p, "err", msg), into_response(AppErrorInternal(msg)), newtrace)

\* the handler maps Ok(None) / false to AppError::NotFound
NotFound(p, newtrace) ==
    Finish(p, Result(p, "none", ""), into_response(AppErrorNotFound), newtrace)

\* a request arrives at handler p
Begin(p, r, firstpc) ==
    /\ Idle(p)
    /\ nops' = nops + 1
    /\ req' = [req EXCEPT ![p] = r @@ [rid |-> nops + 1]]
    /\ Upd(p, firstpc, InitLoc, NoResp, <<>>)

UnchangedStore == UNCHANGED <<links, nextId, analytics>>
UnchangedGhosts == UNCHANGED <<issued, removed, createdUrl, cleared, lastCreate>>


\* ------------------------------------------------- LinkService::create_link
ValidateCreate(r) ==
    LET u == validate_url(r.url) IN
    IF ~u.ok THEN u
    ELSE IF IsSome(r.custom_alias) THEN validate_custom_alias(Unwrap(r.custom_alias))
    ELSE Ok(TRUE)

\* create_short_link -> create_link, up to its first await
CreateBegin(p, r) ==
    /\ Idle(p)
    /\ nops' = nops + 1
    /\ req' = [req EXCEPT ![p] = r @@ [rid |-> nops + 1]]
    /\ LET v == ValidateCreate(r) IN
       IF ~v.ok
       THEN Upd(p, "done", [InitLoc EXCEPT !.res = "err", !.err = v.err, !.at = now],
                into_response(AppErrorInternal(v.err)), <<>>)
       ELSE Upd(p, IF IsSome(r.custom_alias) THEN "c_exists" ELSE "c_gen",
                InitLoc, NoResp, <<>>)
    /\ UNCHANGED <<now, cache, tasks>>
    /\ UnchangedStore
    /\ UnchangedGhosts

\* repository.exists(&custom_alias)
CreateAliasExists(p, ok) ==
    /\ pc[p] = "c_exists"
    /\ LET alias == Unwrap(req[p].custom_alias)
           found == RepoExists(links, alias)
           out == IF ~ok THEN "err" ELSE IF found THEN "true" ELSE "false"
           tr == Append(trace[p], Call("exists", out))
       IN  IF ~ok THEN Fail(p, ErrStore, tr)
           ELSE IF found THEN Fail(p, ErrAliasExists, tr)
           ELSE Upd(p, "c_insert", [loc[p] EXCEPT !.key = Some(alias)], ret[p], tr)
    /\ UNCHANGED <<now, cache, tasks, req, nops>>
    /\ UnchangedStore
    /\ UnchangedGhosts

\* generate_unique_key: for _ in 0..10
GenLoopContinuesInclusive(attempt) == attempt <= MaxAttempts

GenLoopContinues(attempt) == attempt < MaxAttempts

\* generate_unique_key: one turn of the loop, a drawn key and its exists check
CreateGenerate(p, k, ok) ==
    /\ pc[p] = "c_gen"
    /\ LET found == RepoExists(links, k)
           out == IF ~ok THEN "err" ELSE IF found THEN "true" ELSE "false"
           tr == Append(trace[p], Call("exists", out))
           n == loc[p].attempt + 1
       IN  IF ~ok THEN Fail(p, ErrStore, tr)
           ELSE IF ~found
           THEN Upd(p, "c_insert", [loc[p] EXCEPT !.key = Some(k), !.attempt = n],
                    ret[p], tr)
           ELSE IF GenLoopContinues(n)
           THEN Upd(p, "c_gen", [loc[p] EXCEPT !.attempt = n], ret[p], tr)
           ELSE Finish(p, [Result(p, "err", ErrKeyGen) EXCEPT !.attempt = n],
                       into_response(AppErrorInternal(ErrKeyGen)), tr)
    /\ UNCHANGED <<now, cache, tasks, req, nops>>
    /\ UnchangedStore
    /\ UnchangedGhosts

\* what create_link does with the result of repository.create(..).await?
AfterInsertIgnoringErr(inserted) == "c_cache"

AfterInsert(inserted) == IF inserted THEN "c_cache" ELSE "fail"

\* repository.create(key, url, expires_at, owner_id)
CreateInsert(p, ok) ==
    /\ pc[p] = "c_insert"
    /\ LET key == Unwrap(loc[p].key)
           expires_at == IF IsSome(req[p].expires_in)
                         THEN Some(now + Unwrap(req[p].expires_in)) ELSE None
           row == RepoNewRow(nextId, key, req[p].url.text, expires_at)
           inserted == ok /\ KeyConstraintHolds(links, key)
           out == IF ~ok THEN "err"
                  ELSE IF inserted THEN "ok" ELSE "duplicate key"
           tr == Append(trace[p], Call("create", out))
       IN  /\ links' = IF inserted THEN links \cup {row} ELSE links
           /\ nextId' = IF inserted THEN nextId + 1 ELSE nextId
           /\ IF AfterInsert(inserted) = "c_cache"
              THEN Upd(p, "c_cache", [loc[p] EXCEPT !.link = Some(row)], ret[p], tr)
              ELSE Fail(p, ErrStore, tr)
    /\ UNCHANGED <<now, cache, tasks, req, nops, analytics>>
    /\ UnchangedGhosts

\* cache.set(key, link), then Ok(link_to_response(link))
CreateCacheSet(p) ==
    /\ pc[p] = "c_cache"
    /\ LET key == Unwrap(loc[p].key)
           link == Unwrap(loc[p].link)
       IN  /\ cache' = CacheSet(cache, key, link, now)
           /\ Finish(p, Result(p, "ok", ""), RespJson(link_to_response(link)),
                     Append(trace[p], Call("cache.set", "ok")))
           /\ issued' = [issued EXCEPT ![key] = @ + 1]
           /\ createdUrl' = [createdUrl EXCEPT ![key] = Some(req[p].url.text)]
           /\ cleared' = cleared \ {key}
           /\ lastCreate' = [lastCreate EXCEPT ![key] =
                                Some([rid |-> req[p].rid, at |-> now, link |-> link])]
    /\ UNCHANGED <<now, tasks, req, nops, removed>>
    /\ UnchangedStore


\* --------------------------------------------------- LinkService::get_link
GetOps == {"redirect", "qr", "detailed"}

\* redirect_to_original / generate_qr_code / get_detailed_analytics call get_link
GetBegin(p, op, k, h) ==
    /\ op \in GetOps
    /\ Begin(p, [op |-> op, key |-> k, headers |-> h], "g_cache")
    /\ UNCHANGED <<now, cache, tasks>>
    /\ UnchangedStore
    /\ UnchangedGhosts

\* the capture task of tokio::spawn: (service, key, link_id) and the
\* referrer, user_agent and ip_hash the handler took from the headers
NewTask(p, link) ==
    [rid |-> req[p].rid, key |-> req[p].key, link_id |-> link.id, pc |-> "inc",
     referrer |-> HeaderString(req[p].headers.referer),
     user_agent |-> HeaderString(req[p].headers.user_agent),
     ip_hash |-> IpHash(req[p].headers),
     addr |-> SelectedAddress(req[p].headers),
     incTries |-> 0, recTries |-> 0, inc |-> "-", rec |-> "-",
     cachedBefore |-> FALSE, hit |-> None]

\* get_link has returned `result` to its handler, which runs on to its next
\* await or to its return
AfterGet(p, result, tr) ==
    IF ~result.ok THEN Fail(p, result.err, tr) /\ UNCHANGED tasks
    ELSE IF ~IsSome(result.val) THEN NotFound(p, tr) /\ UNCHANGED tasks
    ELSE LET link == Unwrap(result.val)
             l == [Result(p, "ok", "") EXCEPT !.link = Some(link)]
         IN  CASE req[p].op = "redirect" ->
                    /\ tasks' = Append(tasks, NewTask(p, link))
                    /\ Upd(p, "r_respond", l, ret[p], tr)
               [] req[p].op = "qr" ->
                    /\ Finish(p, l, RespPng(req[p].key), tr)
                    /\ UNCHANGED tasks
               [] req[p].op = "detailed" ->
                    /\ Upd(p, "d_query", l, ret[p], tr)
                    /\ UNCHANGED tasks

\* cache.get(key), and the hit path
GetCacheGet(p) ==
    /\ pc[p] = "g_cache"
    /\ LET hit == CacheGet(cache, req[p].key, now) IN
       IF IsSome(hit) /\ ~is_expired(Unwrap(hit), now)
       THEN AfterGet(p, Ok(hit), Append(trace[p], Call("cache.get", "hit")))
       ELSE /\ Upd(p, IF IsSome(hit) THEN "g_inval" ELSE "g_find", loc[p], ret[p],
                   Append(trace[p],
                          Call("cache.get", IF IsSome(hit) THEN "expired" ELSE "miss")))
            /\ UNCHANGED tasks
    /\ UNCHANGED <<now, cache, req, nops>>
    /\ UnchangedStore
    /\ UnchangedGhosts

\* cache.invalidate(key) of an expired cached link
GetCacheInvalidate(p) ==
    /\ pc[p] = "g_inval"
    /\ cache' = CacheInvalidate(cache, req[p].key)
    /\ Upd(p, "g_find", loc[p], ret[p],
           Append(trace[p], Call("cache.invalidate", "ok")))
    /\ UNCHANGED <<now, tasks, req, nops>>
    /\ UnchangedStore
    /\ UnchangedGhosts

\* repository.find_by_key(key)
GetFindByKey(p, ok) ==
    /\ pc[p] = "g_find"
    /\ LET found == RepoFindByKey(links, req[p].key)
           live == IsSome(found) /\ ~is_expired(Unwrap(found), now)
           out == IF ~ok THEN "err" ELSE IF ~IsSome(found) THEN "none"
                  ELSE IF live THEN "some" ELSE "expired"
           tr == Append(trace[p], Call("find_by_key", out))
       IN  IF ~ok THEN AfterGet(p, Err(ErrStore), tr)
           ELSE IF live
           THEN /\ Upd(p, "g_set", [loc[p] EXCEPT !.link = found, !.at = now],
                       ret[p], tr)
                /\ UNCHANGED tasks
           ELSE AfterGet(p, Ok(None), tr)
    /\ UNCHANGED <<now, cache, req, nops>>
    /\ UnchangedStore
    /\ UnchangedGhosts

\* cache.set(key, link), then Ok(Some(link))
GetCacheSet(p) ==
    /\ pc[p] = "g_set"
    /\ cache' = CacheSet(cache, req[p].key, Unwrap(loc[p].link), now)
    /\ AfterGet(p, Ok(loc[p].link), Append(trace[p], Call("cache.set", "ok")))
    /\ UNCHANGED <<now, req, nops>>
    /\ UnchangedStore
    /\ UnchangedGhosts

\* ------------------------------------------------------ redirect_to_original
\* whether the handler's return waits for anything once the task is spawned
ReadyAfterTask(p) ==
    \E i \in 1..Len(tasks) : tasks[i].rid = req[p].rid /\ tasks[i].pc = "end"

ReadyToRespond(p) == TRUE

\* Ok(Redirect::permanent(&_link.original_url))
RedirectRespond(p) ==
    /\ pc[p] = "r_respond"
    /\ ReadyToRespond(p)
    /\ Upd(p, "done", loc[p], RespRedirect(Unwrap(loc[p].link).original_url),
           trace[p])
    /\ UNCHANGED <<now, cache, tasks, req, nops>>
    /\ UnchangedStore
    /\ UnchangedGhosts

\* ----------------------------------------------------- the capture task
\* let _ = service.increment_click(&key).await; then record_analytics
TaskAfterIncrementRetry(ok) == IF ok THEN "inv" ELSE "inc"

TaskAfterIncrementNoInvalidate(ok) == "rec"

\* invalidates whatever the update returned
TaskAfterIncrementAlwaysInvalidate(ok) == "inv"

TaskAfterIncrement(ok) == IF ok THEN "inv" ELSE "rec"

\* increment_click: repository.increment_click_count(key)
TaskIncrement(i, ok) ==
    /\ i \in 1..Len(tasks)
    /\ tasks[i].pc = "inc"
    /\ links' = IF ok THEN RepoIncrement(links, tasks[i].key) ELSE links
    /\ tasks' = [tasks EXCEPT ![i] =
                   [@ EXCEPT !.pc = TaskAfterIncrement(ok),
                             !.incTries = @ + 1,
                             !.inc = IF ok THEN "ok" ELSE "err",
                             !.cachedBefore =
                                 IsSome(CacheGet(cache, tasks[i].key, now)),
                             !.hit = IF ok /\ RepoExists(links, tasks[i].key)
                                     THEN Some(Unwrap(RepoFindByKey(links,
                                                         tasks[i].key)).id)
                                     ELSE None]]
    /\ UNCHANGED <<now, nextId, analytics, cache, pc, req, loc, ret, trace, nops>>
    /\ UnchangedGhosts

\* increment_click: cache.invalidate(key)
TaskInvalidate(i) ==
    /\ i \in 1..Len(tasks)
    /\ tasks[i].pc = "inv"
    /\ cache' = CacheInvalidate(cache, tasks[i].key)
    /\ tasks' = [tasks EXCEPT ![i] = [@ EXCEPT !.pc = "rec"]]
    /\ UNCHANGED <<now, pc, req, loc, ret, trace, nops>>
    /\ UnchangedStore
    /\ UnchangedGhosts

\* the row record_analytics inserts: the fields parsed from the user agent,
\* the others as given; clicked_at is the store's clock, country_code is
\* not written
NewEvent(t, at) ==
    LET ua == IF IsSome(t.user_agent) THEN parse_user_agent(Unwrap(t.user_agent))
              ELSE [browser |-> None, os |-> None, device_type |-> None]
    IN  [link_id |-> t.link_id, clicked_at |-> at,
         referrer |-> t.referrer,
         user_agent |-> IF IsSome(t.user_agent) THEN Some(Unwrap(t.user_agent).s)
                        ELSE None,
         ip_hash |-> t.ip_hash,
         browser |-> ua.browser, os |-> ua.os, device_type |-> ua.device_type,
         country_code |-> None]

\* record_analytics: INSERT INTO link_analytics
TaskRecord(i, ok) ==
    /\ i \in 1..Len(tasks)
    /\ tasks[i].pc = "rec"
    /\ analytics' = IF ok THEN Append(analytics, NewEvent(tasks[i], now))
                    ELSE analytics
    /\ tasks' = [tasks EXCEPT ![i] =
                   [@ EXCEPT !.pc = "end",
                             !.recTries = @ + 1,
                             !.rec = IF ok THEN "ok" ELSE "err"]]
    /\ UNCHANGED <<now, links, nextId, cache, pc, req, loc, ret, trace, nops>>
    /\ UnchangedGhosts


\* ------------------------------------------- link_analytics JOIN links queries
\* FROM link_analytics la JOIN links l ON la.link_id = l.id WHERE l.key = $1
EventsOfKey(s, a, key) ==
    SelectSeq(a, LAMBDA e : \E r \in s : r.key = key /\ r.id = e.link_id)

RepoGetAnalytics(s, a, key) == EventsOfKey(s, a, key)

RepoGetTotalClicks(s, a, key) == Len(EventsOfKey(s, a, key))

\* get_detailed_analytics: repository.get_analytics(&key, limit)
DetailedQuery(p, ok) ==
    /\ pc[p] = "d_query"
    /\ LET tr == Append(trace[p], Call("get_analytics", IF ok THEN "ok" ELSE "err")) IN
       IF ok
       THEN Upd(p, "done", loc[p],
                RespJson(RepoGetAnalytics(links, analytics, req[p].key)), tr)
       ELSE Upd(p, "done", [loc[p] EXCEPT !.res = "err", !.err = ErrStore],
                into_response(AppErrorInternal(ErrStore)), tr)
    /\ UNCHANGED <<now, cache, tasks, req, nops>>
    /\ UnchangedStore
    /\ UnchangedGhosts

\* ---------------------------------------------------- LinkService::get_stats
StatsBegin(p, k) ==
    /\ Begin(p, [op |-> "stats", key |-> k], "t_find")
    /\ UNCHANGED <<now, cache, tasks>>
    /\ UnchangedStore
    /\ UnchangedGhosts

LinkStats(l) ==
    [key |-> l.key, original_url |-> l.original_url,
     click_count |-> l.click_count, expires_at |-> l.expires_at]

\* get_link_stats: repository.find_by_key(key), mapped to LinkStats
StatsFind(p, ok) ==
    /\ pc[p] = "t_find"
    /\ LET found == RepoFindByKey(links, req[p].key)
           out == IF ~ok THEN "err" ELSE IF IsSome(found) THEN "some" ELSE "none"
           tr == Append(trace[p], Call("find_by_key", out))
       IN  IF ~ok THEN Fail(p, ErrStore, tr)
           ELSE IF ~IsSome(found) THEN NotFound(p, tr)
           ELSE Finish(p, [Result(p, "ok", "") EXCEPT !.link = found],
                       RespJson(LinkStats(Unwrap(found))), tr)
    /\ UNCHANGED <<now, cache, tasks, req, nops>>
    /\ UnchangedStore
    /\ UnchangedGhosts

\* ---------------------------------------- LinkService::get_analytics_summary
\* the aggregate queries of LinkRepository
RECURSIVE Ranked(_)
\* ORDER BY count DESC of a set of (name, count) rows
Ranked(rows) ==
    IF rows = {} THEN <<>>
    ELSE LET r == CHOOSE x \in rows : \A y \in rows : y.count <= x.count
         IN  <<r>> \o Ranked(rows \ {r})

\* GROUP BY a column, COUNT(*), rows whose column is NULL left out; col is
\* the column's value in each row
Grouped(col) ==
    LET vals == {col[i] : i \in 1..Len(col)} \ {None} IN
    Ranked({[name |-> Unwrap(v),
             count |-> Cardinality({i \in 1..Len(col) : col[i] = v})] : v \in vals})

\* LIMIT n
Take(rows, n) == SubSeq(rows, 1, IF n < Len(rows) THEN n ELSE Len(rows))

RepoGetUniqueVisitors(s, a, key) ==
    LET evs == EventsOfKey(s, a, key) IN
    Cardinality({evs[i].ip_hash : i \in 1..Len(evs)} \ {None})

RepoGetTopReferrers(s, a, key, limit) ==
    LET evs == EventsOfKey(s, a, key) IN
    Take(Grouped([i \in 1..Len(evs) |->
                    IF evs[i].referrer # None /\ evs[i].referrer # Some("")
                    THEN evs[i].referrer ELSE None]), limit)

RepoGetDeviceBreakdown(s, a, key) ==
    LET evs == EventsOfKey(s, a, key) IN
    Grouped([i \in 1..Len(evs) |->
               IF IsSome(evs[i].device_type) THEN evs[i].device_type
               ELSE Some("other")])

RepoGetBrowserStats(s, a, key, limit) ==
    LET evs == EventsOfKey(s, a, key) IN
    Take(Grouped([i \in 1..Len(evs) |-> evs[i].browser]), limit)

RepoGetCountryStats(s, a, key, limit) ==
    LET evs == EventsOfKey(s, a, key) IN
    Take(Grouped([i \in 1..Len(evs) |-> evs[i].country_code]), limit)

\* DATE(clicked_at)
DateOf(t) == t \div TicksPerDay

RECURSIVE DatesLatestFirst(_)
DatesLatestFirst(ds) ==
    IF ds = {} THEN <<>>
    ELSE LET d == CHOOSE x \in ds : \A y \in ds : y <= x
         IN  <<d>> \o DatesLatestFirst(ds \ {d})

\* per day within the window: clicks and distinct ip hashes
RepoGetTimeSeries(s, a, key, days, t) ==
    LET evs == SelectSeq(EventsOfKey(s, a, key),
                         LAMBDA e : e.clicked_at >= t - days * TicksPerDay)
        on(d) == {i \in 1..Len(evs) : DateOf(evs[i].clicked_at) = d}
        dates == DatesLatestFirst({DateOf(evs[i].clicked_at) : i \in 1..Len(evs)})
    IN  [n \in 1..Len(dates) |->
            [date |-> dates[n],
             clicks |-> Cardinality(on(dates[n])),
             unique_visitors |->
                 Cardinality({evs[i].ip_hash : i \in on(dates[n])} \ {None})]]

\* a percentage as the quotient count * 100 / total, or 0.0 with no division
PercentageUnguarded(count, total) ==
    [num |-> count * 100, den |-> total, divided |-> TRUE]

Percentage(count, total) ==
    IF total > 0 THEN [num |-> count * 100, den |-> total, divided |-> TRUE]
    ELSE [num |-> 0, den |-> 1, divided |-> FALSE]

\* ReferrerStats / CountryStats / BrowserStats of the ranked rows
WithPercentage(rows, total) ==
    [i \in 1..Len(rows) |->
        [name |-> rows[i].name, count |-> rows[i].count,
         percentage |-> Percentage(rows[i].count, total)]]

DeviceNames == {"desktop", "mobile", "tablet", "bot"}

\* the match over the device rows: a named field takes its row's count, and
\* `other` the count of the last row with any other name
DeviceBreakdown(rows) ==
    LET of(n) == LET idx == {i \in 1..Len(rows) : rows[i].name = n} IN
                 IF idx = {} THEN 0
                 ELSE rows[CHOOSE i \in idx : \A j \in idx : j <= i].count
        rest == {i \in 1..Len(rows) : rows[i].name \notin DeviceNames}
    IN  [desktop |-> of("desktop"), mobile |-> of("mobile"),
         tablet |-> of("tablet"), bot |-> of("bot"),
         other |-> IF rest = {} THEN 0
                   ELSE rows[CHOOSE i \in rest : \A j \in rest : j <= i].count]

\* the results of the queries made so far
NoSummary ==
    [total_clicks |-> 0, unique_visitors |-> 0, top_referrers |-> <<>>,
     device_breakdown |-> DeviceBreakdown(<<>>), geographic_distribution |-> <<>>,
     browser_stats |-> <<>>, time_series |-> <<>>]

\* query.days.min(365)
DaysClamped(d) == IF d < MaxDays THEN d ELSE MaxDays

\* get_analytics_summary handler: days = query.days.min(365)
SummaryBegin(p, k, d) ==
    /\ Begin(p, [op |-> "summary", key |-> k, requested |-> d,
                 days |-> DaysClamped(d)], "s_find")
    /\ UNCHANGED <<now, cache, tasks>>
    /\ UnchangedStore
    /\ UnchangedGhosts

\* if repository.find_by_key(key).await?.is_none() { return Ok(None) }
SummaryFind(p, ok) ==
    /\ pc[p] = "s_find"
    /\ LET found == RepoFindByKey(links, req[p].key)
           out == IF ~ok THEN "err" ELSE IF IsSome(found) THEN "some" ELSE "none"
           tr == Append(trace[p], Call("find_by_key", out))
       IN  IF ~ok THEN Fail(p, ErrStore, tr)
           ELSE IF ~IsSome(found) THEN NotFound(p, tr)
           ELSE Upd(p, "s_total", [loc[p] EXCEPT !.link = found, !.at = now,
                                                !.sum = NoSummary],
                    ret[p], tr)
    /\ UNCHANGED <<now, cache, tasks, req, nops>>
    /\ UnchangedStore
    /\ UnchangedGhosts

\* one aggregate query of get_analytics_summary and what is made of its rows
SummaryQuery(p, ok, here, next, call, field, value) ==
    /\ pc[p] = here
    /\ LET tr == Append(trace[p], Call(call, IF ok THEN "ok" ELSE "err")) IN
       IF ok THEN Upd(p, next, [loc[p] EXCEPT !.sum[field] = value], ret[p], tr)
       ELSE Fail(p, ErrStore, tr)
    /\ UNCHANGED <<now, cache, tasks, req, nops>>
    /\ UnchangedStore
    /\ UnchangedGhosts

SummaryTotal(p, ok) ==
    SummaryQuery(p, ok, "s_total", "s_unique", "get_total_clicks", "total_clicks",
                 RepoGetTotalClicks(links, analytics, req[p].key))

SummaryUnique(p, ok) ==
    SummaryQuery(p, ok, "s_unique", "s_ref", "get_unique_visitors", "unique_visitors",
                 RepoGetUniqueVisitors(links, analytics, req[p].key))

SummaryReferrers(p, ok) ==
    SummaryQuery(p, ok, "s_ref", "s_dev", "get_top_referrers", "top_referrers",
                 WithPercentage(RepoGetTopReferrers(links, analytics, req[p].key, TopN),
                                loc[p].sum.total_clicks))

SummaryDevices(p, ok) ==
    SummaryQuery(p, ok, "s_dev", "s_country", "get_device_breakdown", "device_breakdown",
                 DeviceBreakdown(RepoGetDeviceBreakdown(links, analytics, req[p].key)))

SummaryCountries(p, ok) ==
    SummaryQuery(p, ok, "s_country", "s_browser", "get_country_stats",
                 "geographic_distribution",
                 WithPercentage(RepoGetCountryStats(links, analytics, req[p].key, TopN),
                                loc[p].sum.total_clicks))

SummaryBrowsers(p, ok) ==
    SummaryQuery(p, ok, "s_browser", "s_series", "get_browser_stats", "browser_stats",
                 WithPercentage(RepoGetBrowserStats(links, analytics, req[p].key, TopN),
                                loc[p].sum.total_clicks))

\* get_time_series, then Ok(Some(AnalyticsSummary {..}))
SummarySeries(p, ok) ==
    /\ pc[p] = "s_series"
    /\ LET tr == Append(trace[p], [call |-> "get_time_series",
                                   out |-> IF ok THEN "ok" ELSE "err",
                                   days |-> req[p].days])
           sum == [loc[p].sum EXCEPT !.time_series =
                      RepoGetTimeSeries(links, analytics, req[p].key, req[p].days, now)]
       IN  IF ok
           THEN Finish(p, [Result(p, "ok", "") EXCEPT !.sum = sum], RespJson(sum), tr)
           ELSE Fail(p, ErrStore, tr)
    /\ UNCHANGED <<now, cache, tasks, req, nops>>
    /\ UnchangedStore
    /\ UnchangedGhosts

\* --------------------------------------------------- LinkService::list_links
ListLimits == {1, 50}

\* list_links handler: limit = query.limit.min(100)
ListBegin(p, limit, offset) ==
    /\ Begin(p, [op |-> "list",
                 limit |-> IF limit < MaxListLimit THEN limit ELSE MaxListLimit,
                 offset |-> offset], "l_query")
    /\ UNCHANGED <<now, cache, tasks>>
    /\ UnchangedStore
    /\ UnchangedGhosts

\* the rows of s, latest first (ids are handed out in insertion order)
RECURSIVE RowsLatestFirst(_)
RowsLatestFirst(s) ==
    IF s = {} THEN <<>>
    ELSE LET r == CHOOSE x \in s : \A y \in s : y.id <= x.id
         IN  <<r>> \o RowsLatestFirst(s \ {r})

\* SELECT .. FROM links ORDER BY created_at DESC LIMIT $1 OFFSET $2
RepoList(s, limit, offset) ==
    LET rows == RowsLatestFirst(s)
        last == IF offset + limit < Len(rows) THEN offset + limit ELSE Len(rows)
    IN  SubSeq(rows, offset + 1, last)

\* repository.list(limit, offset), each row through link_to_response
ListQuery(p, ok) ==
    /\ pc[p] = "l_query"
    /\ LET rows == RepoList(links, req[p].limit, req[p].offset)
           tr == Append(trace[p], Call("list", IF ok THEN "ok" ELSE "err"))
       IN  IF ok
           THEN Finish(p, Result(p, "ok", ""),
                       RespJson([i \in 1..Len(rows) |-> link_to_response(rows[i])]), tr)
           ELSE Fail(p, ErrStore, tr)
    /\ UNCHANGED <<now, cache, tasks, req, nops>>
    /\ UnchangedStore
    /\ UnchangedGhosts

\* -------------------------------------------------- LinkService::delete_link
DeleteBegin(p, k) ==
    /\ Begin(p, [op |-> "delete", key |-> k], "x_delete")
    /\ UNCHANGED <<now, cache, tasks>>
    /\ UnchangedStore
    /\ UnchangedGhosts

\* repository.delete(key): rows_affected() > 0
DeleteRepo(p, ok) ==
    /\ pc[p] = "x_delete"
    /\ LET key == req[p].key
           deleted == RepoExists(links, key)
           out == IF ~ok THEN "err" ELSE IF deleted THEN "true" ELSE "false"
           tr == Append(trace[p], Call("delete", out))
       IN  /\ links' = IF ok THEN RepoDelete(links, key) ELSE links
           /\ removed' = IF ok /\ deleted THEN [removed EXCEPT ![key] = @ + 1]
                         ELSE removed
           /\ createdUrl' = IF ok /\ deleted THEN [createdUrl EXCEPT ![key] = None]
                            ELSE createdUrl
           /\ IF ~ok THEN Fail(p, ErrStore, tr)
              ELSE IF deleted THEN Upd(p, "x_inval", loc[p], ret[p], tr)
              ELSE NotFound(p, tr)
    /\ UNCHANGED <<now, nextId, analytics, cache, tasks, req, nops, issued, cleared,
                   lastCreate>>

\* cache.invalidate(key), then Ok(true): StatusCode::NO_CONTENT
DeleteInvalidate(p) ==
    /\ pc[p] = "x_inval"
    /\ cache' = CacheInvalidate(cache, req[p].key)
    /\ Finish(p, Result(p, "ok", ""), RespNoContent,
              Append(trace[p], Call("cache.invalidate", "ok")))
    /\ UNCHANGED <<now, tasks, req, nops>>
    /\ UnchangedStore
    /\ UnchangedGhosts

\* ------------------------------------------------------------ environment
\* time passes
Tick ==
    /\ now < MaxTime
    /\ now' = now + 1
    /\ UNCHANGED <<cache, tasks, pc, req, loc, ret, trace, nops>>
    /\ UnchangedStore
    /\ UnchangedGhosts

\* LinkCache::clear
ClearCache ==
    /\ \E k \in AllKeys : IsSome(cache[k])
    /\ cache' = CacheClear(cache)
    /\ cleared' = cleared \cup {k \in AllKeys : IsSome(cache[k])}
    /\ UNCHANGED <<now, tasks, pc, req, loc, ret, trace, nops,
                   issued, removed, createdUrl, lastCreate>>
    /\ UnchangedStore

\* ------------------------------------------------------------- the system
\* the requests of the model
CreateRequests ==
    [url : {UrlA}, custom_alias : {None, Some(AliasK)}, expires_in : ExpiresIn]
    \cup [url : {UrlB}, custom_alias : {None, Some(AliasK)}, expires_in : {None}]
    \cup [url : InvalidUrls, custom_alias : {None}, expires_in : {None}]
    \cup [url : {UrlFtp}, custom_alias : {Some(AliasBang)}, expires_in : {None}]
    \cup [url : {UrlA}, custom_alias : {Some(a) : a \in InvalidAliases},
          expires_in : {None}]

ConcCreateRequests ==
    [url : {UrlA}, custom_alias : {None, Some(AliasK)}, expires_in : {None, Some(-1)}]

\* a step of handler p inside a request
ProcStep(p) ==
    \/ \E ok \in BOOLEAN : CreateAliasExists(p, ok)
    \/ \E k \in GenKeys, ok \in BOOLEAN : CreateGenerate(p, k, ok)
    \/ \E ok \in BOOLEAN : CreateInsert(p, ok)
    \/ CreateCacheSet(p)
    \/ GetCacheGet(p)
    \/ GetCacheInvalidate(p)
    \/ \E ok \in BOOLEAN : GetFindByKey(p, ok)
    \/ GetCacheSet(p)
    \/ RedirectRespond(p)
    \/ \E ok \in BOOLEAN : DetailedQuery(p, ok)
    \/ \E ok \in BOOLEAN : StatsFind(p, ok)
    \/ \E ok \in BOOLEAN : SummaryFind(p, ok)
    \/ \E ok \in BOOLEAN : SummaryTotal(p, ok)
    \/ \E ok \in BOOLEAN : SummaryUnique(p, ok)
    \/ \E ok \in BOOLEAN : SummaryReferrers(p, ok)
    \/ \E ok \in BOOLEAN : SummaryDevices(p, ok)
    \/ \E ok \in BOOLEAN : SummaryCountries(p, ok)
    \/ \E ok \in BOOLEAN : SummaryBrowsers(p, ok)
    \/ \E ok \in BOOLEAN : SummarySeries(p, ok)
    \/ \E ok \in BOOLEAN : DeleteRepo(p, ok)
    \/ DeleteInvalidate(p)
    \/ \E ok \in BOOLEAN : ListQuery(p, ok)

\* a step of capture task i
TaskStep(i) ==
    \/ \E ok \in BOOLEAN : TaskIncrement(i, ok)
    \/ TaskInvalidate(i)
    \/ \E ok \in BOOLEAN : TaskRecord(i, ok)

\* a request arrives at handler p
Arrive(p, creates, keys, hdrs) ==
    \/ \E r \in creates : CreateBegin(p, [op |-> "create"] @@ r)
    \/ \E op \in GetOps, k \in keys, h \in hdrs : GetBegin(p, op, k, h)
    \/ \E k \in keys : StatsBegin(p, k)
    \/ \E k \in keys : SummaryBegin(p, k, DefaultDays)
    \/ \E k \in keys : DeleteBegin(p, k)
    \/ \E l \in ListLimits : ListBegin(p, l, 0)

AllIdle == \A p \in Procs : Idle(p)
NoIncrementInFlight == \A i \in 1..Len(tasks) : tasks[i].pc # "inv"
Quiescent == AllIdle /\ NoIncrementInFlight

\* one operation at a time, served by handler 1
SeqNext ==
    \/ Quiescent /\ nops < MaxOps /\ Arrive(1, CreateRequests, Keys, {NoHeaders})
    \/ NoIncrementInFlight /\ ProcStep(1)
    \/ AllIdle /\ \E i \in 1..Len(tasks) : TaskStep(i)
    \/ Quiescent /\ Tick
    \/ Quiescent /\ ClearCache

Spec == Init /\ [][SeqNext]_vars

\* handlers and tasks interleave at their await points
ConcNext ==
    \/ nops < MaxConcOps /\ \E p \in Procs : Arrive(p, ConcCreateRequests, {AliasK}, {NoHeaders})
    \/ \E p \in Procs : ProcStep(p)
    \/ \E i \in 1..Len(tasks) : TaskStep(i)
    \/ ClearCache

SpecConc == Init /\ [][ConcNext]_vars


\* creates, resolves and deletes of one key interleave while time passes
TtlCreateRequests ==
    [url : {UrlA}, custom_alias : {Some(AliasK)}, expires_in : {None, Some(1)}]

TtlStep(p) ==
    \/ \E ok \in BOOLEAN : CreateAliasExists(p, ok)
    \/ \E ok \in BOOLEAN : CreateInsert(p, ok)
    \/ CreateCacheSet(p)
    \/ GetCacheGet(p)
    \/ GetCacheInvalidate(p)
    \/ \E ok \in BOOLEAN : GetFindByKey(p, ok)
    \/ GetCacheSet(p)
    \/ RedirectRespond(p)
    \/ \E ok \in BOOLEAN : DeleteRepo(p, ok)
    \/ DeleteInvalidate(p)

TtlNext ==
    \/ /\ nops < MaxTtlOps
       /\ \E p \in Procs :
            \/ \E r \in TtlCreateRequests : CreateBegin(p, [op |-> "create"] @@ r)
            \/ \E op \in {"redirect", "qr"} : GetBegin(p, op, AliasK, NoHeaders)
            \/ DeleteBegin(p, AliasK)
    \/ \E p \in Procs : TtlStep(p)
    \/ \E i \in 1..Len(tasks) : TaskStep(i)
    \/ Tick

SpecTtl == Init /\ [][TtlNext]_vars

\* redirects of one key with request headers interleave with summaries
SummaryHeaders ==
    {NoHeaders,
     Headers(HeaderText(<<"1">>), None, HeaderText("https://ref.example/"),
             HeaderText(UaChrome)),
     Headers(None, HeaderText(<<"4">>), HeaderText(""), HeaderText(UaBot))}

SummaryStepOf(p) ==
    \/ \E ok \in BOOLEAN : CreateAliasExists(p, ok)
    \/ \E ok \in BOOLEAN : CreateInsert(p, ok)
    \/ CreateCacheSet(p)
    \/ GetCacheGet(p)
    \/ \E ok \in BOOLEAN : GetFindByKey(p, ok)
    \/ GetCacheSet(p)
    \/ RedirectRespond(p)
    \/ \E ok \in BOOLEAN : SummaryFind(p, ok)
    \/ \E ok \in BOOLEAN : SummaryTotal(p, ok)
    \/ \E ok \in BOOLEAN : SummaryUnique(p, ok)
    \/ \E ok \in BOOLEAN : SummaryReferrers(p, ok)
    \/ \E ok \in BOOLEAN : SummaryDevices(p, ok)
    \/ \E ok \in BOOLEAN : SummaryCountries(p, ok)
    \/ \E ok \in BOOLEAN : SummaryBrowsers(p, ok)
    \/ \E ok \in BOOLEAN : SummarySeries(p, ok)

SummaryNext ==
    \/ /\ nops < MaxSummaryOps
       /\ \E p \in Procs :
            \/ CreateBegin(p, [op |-> "create", url |-> UrlA,
                               custom_alias |-> Some(AliasK), expires_in |-> None])
            \/ \E h \in SummaryHeaders : GetBegin(p, "redirect", AliasK, h)
            \/ SummaryBegin(p, AliasK, DefaultDays)
    \/ \E p \in Procs : SummaryStepOf(p)
    \/ \E i \in 1..Len(tasks) : TaskStep(i)

SpecSummary == Init /\ [][SummaryNext]_vars

\* redirects with every combination of the two address headers, one at a time
IpHeaders == {Headers(x, r, None, None) : x \in XffValues, r \in XriValues}

IpStep(p) ==
    \/ \E ok \in BOOLEAN : CreateAliasExists(p, ok)
    \/ \E ok \in BOOLEAN : CreateInsert(p, ok)
    \/ CreateCacheSet(p)
    \/ GetCacheGet(p)
    \/ \E ok \in BOOLEAN : GetFindByKey(p, ok)
    \/ GetCacheSet(p)
    \/ RedirectRespond(p)

IpNext ==
    \/ /\ Quiescent /\ nops < MaxIpOps
       /\ CreateBegin(1, [op |-> "create", url |-> UrlA,
                          custom_alias |-> Some(AliasK), expires_in |-> None])
    \/ /\ Quiescent /\ nops < MaxIpOps
       /\ \E h \in IpHeaders : GetBegin(1, "redirect", AliasK, h)
    \/ NoIncrementInFlight /\ IpStep(1)
    \/ AllIdle /\ \E i \in 1..Len(tasks) : TaskStep(i)

SpecIp == Init /\ [][IpNext]_vars

\* summaries over day windows of every size, of a link that may be expired,
\* one request at a time while time passes
DaysValues == {-1, 0, 1, DefaultDays, MaxDays, MaxDays + 1}

WindowStep(p) ==
    \/ \E ok \in BOOLEAN : CreateAliasExists(p, ok)
    \/ \E ok \in BOOLEAN : CreateInsert(p, ok)
    \/ CreateCacheSet(p)
    \/ GetCacheGet(p)
    \/ GetCacheInvalidate(p)
    \/ \E ok \in BOOLEAN : GetFindByKey(p, ok)
    \/ GetCacheSet(p)
    \/ RedirectRespond(p)
    \/ \E ok \in BOOLEAN : SummaryFind(p, ok)
    \/ \E ok \in BOOLEAN : SummaryTotal(p, ok)
    \/ \E ok \in BOOLEAN : SummaryUnique(p, ok)
    \/ \E ok \in BOOLEAN : SummaryReferrers(p, ok)
    \/ \E ok \in BOOLEAN : SummaryDevices(p, ok)
    \/ \E ok \in BOOLEAN : SummaryCountries(p, ok)
    \/ \E ok \in BOOLEAN : SummaryBrowsers(p, ok)
    \/ \E ok \in BOOLEAN : SummarySeries(p, ok)

WindowNext ==
    \/ /\ Quiescent /\ nops < MaxWindowOps
       /\ \E e \in {None, Some(-1)} :
             CreateBegin(1, [op |-> "create", url |-> UrlA,
                             custom_alias |-> Some(AliasK), expires_in |-> e])
    \/ /\ Quiescent /\ nops < MaxWindowOps
       /\ GetBegin(1, "redirect", AliasK, NoHeaders)
    \/ /\ Quiescent /\ nops < MaxWindowOps
       /\ \E d \in DaysValues : SummaryBegin(1, AliasK, d)
    \/ NoIncrementInFlight /\ WindowStep(1)
    \/ AllIdle /\ \E i \in 1..Len(tasks) : TaskStep(i)
    \/ Quiescent /\ Tick

SpecWindow == Init /\ [][WindowNext]_vars

\* a link is created, and then resolves, record_clicks and deletes of its
\* key interleave while time passes
RaceStep(p) ==
    \/ \E ok \in BOOLEAN : CreateAliasExists(p, ok)
    \/ \E ok \in BOOLEAN : CreateInsert(p, ok)
    \/ CreateCacheSet(p)
    \/ GetCacheGet(p)
    \/ \E ok \in BOOLEAN : GetFindByKey(p, ok)
    \/ GetCacheSet(p)
    \/ RedirectRespond(p)
    \/ \E ok \in BOOLEAN : DeleteRepo(p, ok)
    \/ DeleteInvalidate(p)

RaceNext ==
    \/ /\ nops = 0
       /\ CreateBegin(1, [op |-> "create", url |-> UrlA,
                          custom_alias |-> Some(AliasK), expires_in |-> None])
    \/ /\ nops > 0 /\ nops < MaxRaceOps
       /\ req[1].op = "create" => pc[1] = "done"
       /\ \E p \in Procs :
            \/ \E op \in {"redirect", "qr"} : GetBegin(p, op, AliasK, NoHeaders)
            \/ DeleteBegin(p, AliasK)
    \/ \E p \in Procs : RaceStep(p)
    \/ \E i \in 1..Len(tasks) : TaskStep(i)
    \/ Tick

SpecRace == Init /\ [][RaceNext]_vars

\* ================================================================ claims
GetPcs == {"g_cache", "g_inval", "g_find", "g_set"}

\* get_link returns to handler p in this step
GetReturns(p) == pc[p] \in GetPcs /\ pc'[p] \notin GetPcs

\* get_link returned Some(link) to handler p
GotLink(p) == req[p].op \in GetOps /\ loc[p].res = "ok" /\ IsSome(loc[p].link)

\* expires_at is in the past at time t
ExpiredAt(link, t) == IsSome(link.expires_at) /\ Unwrap(link.expires_at) < t

CountCalls(tr, name) == Cardinality({i \in 1..Len(tr) : tr[i].call = name})

Created(p) == req[p].op = "create" /\ pc[p] = "done" /\ ret[p].status = 200

ClicksOn(ts, id) ==
    Cardinality({i \in 1..Len(ts) : ts[i].inc = "ok" /\ ts[i].hit = Some(id)})

\* C2: when record_click(key) completes the cache holds no entry for key,
\* and a resolve afterwards returns a click count equal to the number of
\* record_click calls completed on that link, stale cached entry or not.
C2_ClickThenResolve ==
    [][/\ \A i \in 1..Len(tasks) :
            (tasks[i].pc = "inv" /\ tasks'[i].pc = "rec")
                => cache'[tasks[i].key] = None
       /\ \A p \in Procs :
            (GetReturns(p) /\ loc'[p].res = "ok")
                => /\ Unwrap(loc'[p].link) \in links'
                   /\ Unwrap(loc'[p].link).click_count
                        = ClicksOn(tasks, Unwrap(loc'[p].link).id)]_vars

\* a resolve returned count 1 after a record_click that found the link cached
C2_Witness ==
    \E p \in Procs, i \in 1..Len(tasks) :
        /\ pc[p] = "done" /\ GotLink(p)
        /\ tasks[i].key = req[p].key /\ tasks[i].rid < req[p].rid
        /\ tasks[i].inc = "ok" /\ tasks[i].cachedBefore
        /\ tasks[i].hit = Some(Unwrap(loc[p].link).id)
        /\ Unwrap(loc[p].link).click_count = 1

\* C3: a resolve of a key whose link is stored and not expired returns the
\* URL given to the create that returned the key, from the cache and, after
\* clear(), from the store.
C3_RoundTrip ==
    [][\A p \in Procs :
         LET k == req[p].key IN
         (/\ GetReturns(p)
          /\ loc'[p].err # ErrStore
          /\ IsSome(createdUrl[k])
          /\ \E r \in links : r.key = k /\ ~ExpiredAt(r, now))
             => /\ loc'[p].res = "ok"
                /\ Unwrap(loc'[p].link).original_url = Unwrap(createdUrl[k])]_vars

\* a resolve after a clear() read the store and returned the created URL
C3_Witness ==
    \E p \in Procs :
        /\ pc[p] = "done" /\ GotLink(p)
        /\ req[p].key \in cleared
        /\ trace[p] = <<Call("cache.get", "miss"), Call("find_by_key", "some"),
                        Call("cache.set", "ok")>>
        /\ Some(Unwrap(loc[p].link).original_url) = createdUrl[req[p].key]

\* C4: resolve never returns a link whose expires_at is in the past, and it
\* returns none for a key whose row is expired, cached by create or not.
C4_NoExpiredLink ==
    [][\A p \in Procs :
         GetReturns(p)
            => /\ loc'[p].res = "ok" => ~ExpiredAt(Unwrap(loc'[p].link), now)
               /\ (\E r \in links : r.key = req[p].key /\ ExpiredAt(r, now))
                     => loc'[p].res # "ok"]_vars

\* a link created with expires_in = -1 was found in the cache and in the
\* store, and the redirect answered not found
C4_Witness ==
    \E p \in Procs :
        /\ pc[p] = "done" /\ req[p].op = "redirect" /\ ret[p].status = 404
        /\ trace[p] = <<Call("cache.get", "expired"), Call("cache.invalidate", "ok"),
                        Call("find_by_key", "expired")>>
        /\ \E r \in links : r.key = req[p].key /\ r.expires_at = Some(loc[p].at - 1)


ReadOps == GetOps \cup {"stats", "summary"}

\* handler p answered a read with a result, not with an error
Answered(p) == pc[p] = "done" /\ ret[p].status \in {200, 308}

\* C5: no read operation (redirect, QR, detailed analytics, stats, summary)
\* returns a result for a key whose row is expired when the call is served.
C5_ExpiredIsNotFound ==
    \A p \in Procs :
        (req[p].op \in ReadOps /\ Answered(p))
            => ~\E r \in links : r.key = req[p].key /\ ExpiredAt(r, loc[p].at)

\* the responses a caller gets for a validation error and for a store fault
OtherFailureResponses ==
    {into_response(AppErrorInternal(m)) : m \in ValidationErrors \cup {ErrStore}}

\* C6: a create whose valid alias is taken fails with a response that differs
\* from the response to a validation error and to an internal error, and
\* makes no insert and no cache write.
C6_ConflictDistinct ==
    \A p \in Procs :
        (req[p].op = "create" /\ pc[p] = "done" /\ loc[p].err = ErrAliasExists)
            => /\ ret[p] \notin OtherFailureResponses
               /\ \A i \in 1..Len(trace[p]) :
                    trace[p][i].call \notin {"create", "cache.set", "cache.invalidate"}

\* the request is invalid by the rules of the create contract
InvalidUrl(u) ==
    \/ u.len > 2048
    \/ u.parse = None
    \/ Unwrap(u.parse).scheme \notin {"http", "https"}
    \/ Unwrap(u.parse).host = None

InvalidAlias(a) ==
    \/ Len(a) = 0
    \/ Len(a) > 10
    \/ \E i \in 1..Len(a) : a[i] \notin AlnumChars \cup {"-", "_"}

InvalidCreate(r) ==
    \/ InvalidUrl(r.url)
    \/ IsSome(r.custom_alias) /\ InvalidAlias(Unwrap(r.custom_alias))

\* C7: a create request that fails validation is rejected with no store call
\* and no cache call made: the handler has returned an error and the
\* request's call trace is empty.
C7_RejectedBeforeAccess ==
    \A p \in Procs :
        (req[p].op = "create" /\ InvalidCreate(req[p]))
            => /\ pc[p] = "done"
               /\ loc[p].res = "err" /\ loc[p].err \in ValidationErrors
               /\ ret[p].status \notin {200, 204, 308}
               /\ trace[p] = <<>>

\* an ftp:// URL was rejected while links exist and are cached
C7_Witness ==
    \E p \in Procs :
        /\ req[p].op = "create" /\ req[p].url = UrlFtp /\ pc[p] = "done"
        /\ loc[p].err = ErrUrlScheme /\ trace[p] = <<>>
        /\ links # {} /\ cache # EmptyCache

\* C8: generate_unique_key makes at most 10 exists checks; every check but
\* the last reported the drawn key as present; a key is returned only on a
\* check that reported it absent; after 10 present reports the create fails
\* with the exhaustion error, having made no insert and no cache call.
C8_BoundedKeyGeneration ==
    \A p \in Procs :
        (req[p].op = "create" /\ req[p].custom_alias = None)
            => LET tr == trace[p]
                   n == CountCalls(tr, "exists")
               IN  /\ n <= 10
                   /\ pc[p] = "c_gen" => n < 10
                   /\ \A i \in 1..Len(tr) :
                        (tr[i].call = "exists" /\ i < n) => tr[i].out = "true"
                   /\ \A i \in 1..n : tr[i].call = "exists"
                   /\ IsSome(loc[p].key) => (n >= 1 /\ tr[n].out = "false")
                   /\ loc[p].err = ErrKeyGen
                        => /\ pc[p] = "done" /\ ret[p].status = 500
                           /\ Len(tr) = 10
                           /\ \A i \in 1..10 : tr[i] = Call("exists", "true")

\* all 10 drawn keys were present, and the create failed
C8_Witness ==
    \E p \in Procs :
        /\ req[p].op = "create" /\ pc[p] = "done" /\ loc[p].err = ErrKeyGen
        /\ Len(trace[p]) = 10 /\ loc[p].attempt = 10
        /\ Cardinality(links) = Cardinality(GenKeys)

\* the capture task of handler p's request
TasksOf(p) == {i \in 1..Len(tasks) : tasks[i].rid = req[p].rid}

\* C9: once the task is spawned the handler's return waits for nothing, and
\* the redirect it returns is the one to the resolved link whatever the state
\* and the results of the capture task; a task exists only for a request whose
\* outcome is already determined.
C9_RedirectIndependent ==
    \A p \in Procs :
        /\ pc[p] = "r_respond" => ENABLED RedirectRespond(p)
        /\ (req[p].op = "redirect" /\ pc[p] = "done" /\ loc[p].res = "ok")
              => ret[p] = RespRedirect(Unwrap(loc[p].link).original_url)
        /\ (req[p].op = "redirect" /\ pc[p] = "done" /\ loc[p].res # "ok")
              => ret[p].status \in {404, 500}
        /\ TasksOf(p) # {}
              => /\ req[p].op = "redirect" /\ pc[p] \in {"r_respond", "done"}
                 /\ GotLink(p)

\* a redirect was answered 308 although both capture steps failed
C9_Witness ==
    \E p \in Procs, i \in 1..Len(tasks) :
        /\ i \in TasksOf(p)
        /\ pc[p] = "done" /\ ret[p].status = 308
        /\ tasks[i].pc = "end" /\ tasks[i].inc = "err" /\ tasks[i].rec = "err"

\* C10: a capture task makes at most one increment attempt and at most one
\* event write attempt; a request has at most one task, and a request that
\* did not resolve to a live link has none.
C10_AtMostOnce ==
    /\ \A i \in 1..Len(tasks) :
          /\ tasks[i].incTries <= 1 /\ tasks[i].recTries <= 1
          /\ tasks[i].pc = "end" => (tasks[i].incTries = 1 /\ tasks[i].recTries = 1)
          /\ \A j \in 1..Len(tasks) : tasks[i].rid = tasks[j].rid => i = j
    /\ Len(analytics) <= Len(tasks)
    /\ \A p \in Procs : ~GotLink(p) => TasksOf(p) = {}

\* a redirect of an unknown key was answered 404 with no task, and the task
\* of another redirect ended after a failed increment
C10_Witness ==
    \E p \in Procs, i \in 1..Len(tasks) :
        /\ req[p].op = "redirect" /\ pc[p] = "done" /\ ret[p].status = 404
        /\ TasksOf(p) = {}
        /\ tasks[i].pc = "end" /\ tasks[i].inc = "err" /\ tasks[i].incTries = 1

HasRow(s, k) == \E r \in s : r.key = k

\* C11: delete(key) returns true exactly when a row with the key was stored;
\* when it returns true the row is gone and the cache holds no entry for the
\* key, and a resolve of a key that has no row returns not-found; when it
\* returns false (or the store fails) store and cache are as they were.
C11_DeleteSemantics ==
    [][\A p \in Procs :
         LET k == req[p].key IN
         /\ (pc[p] = "x_delete" /\ pc'[p] # "x_delete")
               => /\ pc'[p] = "x_inval" => (HasRow(links, k) /\ ~HasRow(links', k))
                  /\ (HasRow(links, k) /\ loc'[p].err # ErrStore) => pc'[p] = "x_inval"
                  /\ pc'[p] = "done"
                        => /\ ret'[p].status \in {404, 500}
                           /\ ret'[p].status = 404 => ~HasRow(links, k)
                           /\ links' = links /\ cache' = cache
         /\ (pc[p] = "x_inval" /\ pc'[p] # "x_inval")
               => /\ ret'[p] = RespNoContent
                  /\ cache'[k] = None
                  /\ ~HasRow(links', k)
         /\ (GetReturns(p) /\ ~HasRow(links, k)) => loc'[p].res # "ok"]_vars

\* a cached link was deleted and the resolve after it answered not found
C11_Witness ==
    \E p \in Procs :
        /\ pc[p] = "done" /\ req[p].op = "redirect" /\ ret[p].status = 404
        /\ removed[req[p].key] = 1 /\ issued[req[p].key] = 1
        /\ req[p].key \notin cleared
        /\ trace[p] = <<Call("cache.get", "miss"), Call("find_by_key", "none")>>

\* C12: under every interleaving the stored click_count of a link equals the
\* number of record_click calls on its key that succeeded while it was
\* stored: N concurrent calls raise it by exactly N, and the count of every
\* other key is untouched.
C12_NoLostClick ==
    \A r \in links : r.click_count = ClicksOn(tasks, r.id)

\* two record_click calls on one key were in flight together, both past
\* their update and before their invalidate, and the count is 2
C12_Witness ==
    \E i \in 1..Len(tasks), j \in 1..Len(tasks), r \in links :
        /\ i # j
        /\ tasks[i].pc = "inv" /\ tasks[j].pc = "inv"
        /\ tasks[i].key = r.key /\ tasks[j].key = r.key
        /\ r.click_count = 2

\* handler p serves the request that follows the create of its key, with no
\* clear(), no invalidation by a capture task and no TTL expiry in between
FollowsCreate(p) ==
    LET k == req[p].key IN
    /\ req[p].op \in GetOps
    /\ IsSome(lastCreate[k])
    /\ req[p].rid = Unwrap(lastCreate[k]).rid + 1
    /\ now - Unwrap(lastCreate[k]).at < CacheTtl
    /\ k \notin cleared
    /\ \A i \in 1..Len(tasks) : tasks[i].key # k

\* C13 as stated: when create returns, the cache holds the new link under its
\* key, and the resolve that follows immediately makes no store read.
C13_NextReadFromCache ==
    [][\A p \in Procs :
         /\ (pc[p] = "c_cache" /\ pc'[p] = "done")
               => cache'[Unwrap(loc[p].key)]
                    = Some([link |-> Unwrap(loc[p].link), at |-> now])
         /\ (GetReturns(p) /\ FollowsCreate(p))
               => CountCalls(trace'[p], "find_by_key") = 0]_vars

\* C13, amended: when create returns, the cache holds the stored link under
\* its key; the resolve that follows immediately, if the link has not expired
\* by then, returns that link from the cache with no store read.
C13_NextReadFromCacheIfLive ==
    [][\A p \in Procs :
         /\ (pc[p] = "c_cache" /\ pc'[p] = "done")
               => /\ ret'[p].status = 200
                  /\ Unwrap(loc[p].link) \in links'
                  /\ cache'[Unwrap(loc[p].key)]
                       = Some([link |-> Unwrap(loc[p].link), at |-> now])
         /\ (/\ GetReturns(p) /\ FollowsCreate(p)
             /\ ~ExpiredAt(Unwrap(lastCreate[req[p].key]).link, now))
               => /\ loc'[p].res = "ok"
                  /\ loc'[p].link = Some(Unwrap(lastCreate[req[p].key]).link)
                  /\ trace'[p] = <<Call("cache.get", "hit")>>]_vars

\* the resolve right after a create was answered by the cache alone
C13_Witness ==
    \E p \in Procs :
        /\ pc[p] = "done" /\ GotLink(p)
        /\ IsSome(lastCreate[req[p].key])
        /\ req[p].rid = Unwrap(lastCreate[req[p].key]).rid + 1
        /\ loc[p].link = Some(Unwrap(lastCreate[req[p].key]).link)
        /\ trace[p] = <<Call("cache.get", "hit")>>

\* what get_link returned to handler p: the link, or none
Resolved(l) == IF l.res = "ok" THEN l.link ELSE None

\* the resolver that reads only the store
StoreOnlyResolve(s, k, t) ==
    LET found == RepoFindByKey(s, k) IN
    IF IsSome(found) /\ ~ExpiredAt(Unwrap(found), t) THEN found ELSE None

\* C14: with operations run one at a time and clear() called at any point
\* between them, every resolve returns what a resolver reading only the
\* store returns at that moment: the stored row if it is live, else none.
C14_ClearTransparent ==
    [][\A p \in Procs :
         (GetReturns(p) /\ loc'[p].err # ErrStore)
            => Resolved(loc'[p]) = StoreOnlyResolve(links, req[p].key, now)]_vars

\* after a clear() and a counted click, a resolve read the store and
\* returned the row with its count of 1
C14_Witness ==
    \E p \in Procs :
        /\ pc[p] = "done" /\ req[p].op = "qr" /\ GotLink(p)
        /\ req[p].key \in cleared
        /\ Unwrap(loc[p].link).click_count = 1
        /\ Unwrap(loc[p].link) \in links
        /\ trace[p] = <<Call("cache.get", "miss"), Call("find_by_key", "some"),
                        Call("cache.set", "ok")>>

\* the cache answers for key k at time t
CachePresent(c, k, t) == IsSome(c[k]) /\ t - Unwrap(c[k]).at < CacheTtl

\* C15: on the read path a cached link that is expired is removed from the
\* cache and the store is read; on a miss the store is read; the cache is
\* written only after the store returned a row that is not expired, so a
\* resolve leaves no expired and no absent link in the cache.
C15_ReadPath ==
    [][\A p \in Procs :
         LET k == req[p].key IN
         req[p].op \in GetOps =>
         /\ (pc[p] = "g_cache" /\ pc'[p] # "g_cache")
               => /\ cache' = cache
                  /\ ~CachePresent(cache, k, now) => pc'[p] = "g_find"
                  /\ (CachePresent(cache, k, now)
                        /\ ExpiredAt(Unwrap(cache[k]).link, now)) => pc'[p] = "g_inval"
         /\ (pc[p] = "g_inval" /\ pc'[p] # "g_inval")
               => (cache'[k] = None /\ pc'[p] = "g_find")
         /\ (pc[p] = "g_find" /\ pc'[p] # "g_find")
               => /\ cache' = cache
                  /\ trace'[p][Len(trace'[p])].call = "find_by_key"
                  /\ pc'[p] = "g_set"
                        <=> /\ loc'[p].err # ErrStore
                            /\ \E r \in links : r.key = k /\ ~ExpiredAt(r, now)
         /\ (pc[p] = "g_set" /\ pc'[p] # "g_set")
               => /\ IsSome(cache'[k])
                  /\ Unwrap(cache'[k]).link \in links
                  /\ ~ExpiredAt(Unwrap(cache'[k]).link, now)
         /\ pc[p] \in GetPcs
               => \A k2 \in AllKeys :
                     (cache'[k2] # cache[k2] /\ IsSome(cache'[k2]))
                        => /\ k2 = k /\ pc[p] = "g_set"
                           /\ Unwrap(cache'[k2]).link \in links]_vars

\* a QR request found the cached link expired, removed it, read the store,
\* found the row expired too and left the cache without the key
C15_Witness ==
    \E p \in Procs :
        /\ pc[p] = "done" /\ req[p].op = "qr" /\ ret[p].status = 404
        /\ trace[p] = <<Call("cache.get", "expired"), Call("cache.invalidate", "ok"),
                        Call("find_by_key", "expired")>>
        /\ cache[req[p].key] = None
        /\ \E r \in links : r.key = req[p].key

\* the last call of a request's trace
LastCall(tr) == tr[Len(tr)]

\* C16: a cache entry older than the TTL is treated as absent: the resolve
\* misses and reads the store, and what it then returns is the stored row if
\* live, else none; a resolve is answered from an entry only within one TTL
\* of the entry's population, so a stale entry is served no longer than that.
C16_TtlBoundsStaleness ==
    [][\A p \in Procs :
         LET k == req[p].key IN
         req[p].op \in GetOps =>
         /\ (pc[p] = "g_cache" /\ pc'[p] # "g_cache")
               => /\ (IsSome(cache[k]) /\ now - Unwrap(cache[k]).at >= CacheTtl)
                        => /\ pc'[p] = "g_find"
                           /\ LastCall(trace'[p]) = Call("cache.get", "miss")
                  /\ LastCall(trace'[p]) = Call("cache.get", "hit")
                        => /\ IsSome(cache[k])
                           /\ now - Unwrap(cache[k]).at < CacheTtl
                           /\ loc'[p].link = Some(Unwrap(cache[k]).link)
         /\ (pc[p] = "g_find" /\ pc'[p] # "g_find" /\ loc'[p].err # ErrStore)
               => LET auth == StoreOnlyResolve(links, k, now) IN
                  IF IsSome(auth)
                  THEN pc'[p] = "g_set" /\ loc'[p].link = auth
                  ELSE pc'[p] = "done" /\ loc'[p].res = "none"]_vars

\* the cache still holds the link of a deleted row, older than the TTL, and
\* the resolve passed it by, read the store and answered not found
C16_Witness ==
    \E p \in Procs :
        LET k == req[p].key IN
        /\ pc[p] = "done" /\ req[p].op \in GetOps /\ ret[p].status = 404
        /\ IsSome(cache[k]) /\ now - Unwrap(cache[k]).at >= CacheTtl
        /\ ~HasRow(links, k)
        /\ trace[p] = <<Call("cache.get", "miss"), Call("find_by_key", "none")>>

\* the percentage 0.0, no division made
ZeroPercent == [num |-> 0, den |-> 1, divided |-> FALSE]

\* the ranked lists of a summary
RankedLists(b) == {b.top_referrers, b.geographic_distribution, b.browser_stats}

\* C17: a summary of a stored key that has no click event returns
\* total_clicks 0, unique_visitors 0, every device count 0, empty ranked
\* lists and an empty time series; and in every summary whose total_clicks
\* is 0 each percentage is 0.0 and was not computed by a division.
C17_ZeroClickSummary ==
    \A p \in Procs :
        (req[p].op = "summary" /\ pc[p] = "done" /\ ret[p].status = 200)
            => LET b == ret[p].body IN
               /\ EventsOfKey(links, analytics, req[p].key) = <<>>
                     => /\ b.total_clicks = 0 /\ b.unique_visitors = 0
                        /\ b.device_breakdown = [desktop |-> 0, mobile |-> 0,
                                                 tablet |-> 0, bot |-> 0, other |-> 0]
                        /\ \A l \in RankedLists(b) : l = <<>>
                        /\ b.time_series = <<>>
               /\ b.total_clicks = 0
                     => \A l \in RankedLists(b) :
                           \A i \in 1..Len(l) : l[i].percentage = ZeroPercent

\* a summary counted no click, a click event with a referrer was written
\* before its referrer query, and the referrer's percentage is 0.0
C17_Witness ==
    \E p \in Procs :
        /\ req[p].op = "summary" /\ pc[p] = "done" /\ ret[p].status = 200
        /\ ret[p].body.total_clicks = 0
        /\ Len(ret[p].body.top_referrers) = 1
        /\ ret[p].body.top_referrers[1].percentage = ZeroPercent

\* a summary of a stored key without click events returned all zeros
C17_ZeroEventsReached ==
    \E p \in Procs :
        /\ req[p].op = "summary" /\ pc[p] = "done" /\ ret[p].status = 200
        /\ EventsOfKey(links, analytics, req[p].key) = <<>>
        /\ HasRow(links, req[p].key)
        /\ ret[p].body.total_clicks = 0

\* C18: in every step the click_count of a stored link stays as it is or
\* goes up by one, and it goes up only in the step in which a record_click
\* on that link's key updates the store; no step of a create, resolve,
\* delete, list or summarize handler changes any click_count.
C18_ClickCountFrame ==
    [][/\ \A r \in links, r2 \in links' :
            r2.id = r.id
               => \/ r2.click_count = r.click_count
                  \/ /\ r2.click_count = r.click_count + 1
                     /\ \E i \in 1..Len(tasks) :
                           /\ tasks[i].pc = "inc" /\ tasks'[i].pc # "inc"
                           /\ tasks[i].key = r.key
       /\ (\E p \in Procs : pc'[p] # pc[p] \/ req'[p] # req[p])
            => \A r \in links, r2 \in links' :
                  r2.id = r.id => r2.click_count = r.click_count]_vars

\* two links are stored; a record_click counted on one, the other is at 0
C18_Witness ==
    \E r1 \in links, r2 \in links, i \in 1..Len(tasks) :
        /\ r1.key # r2.key
        /\ tasks[i].key = r1.key /\ tasks[i].inc = "ok" /\ tasks[i].hit = Some(r1.id)
        /\ r1.click_count = 1 /\ r2.click_count = 0

\* the text of a header, if the header is present and is text
TextOf(v) == IF IsSome(v) THEN to_str(Unwrap(v)) ELSE None

\* the address by the stated precedence: the first listed address of
\* x-forwarded-for when that header yields one, otherwise the address of
\* x-real-ip when it yields one, otherwise none
ClaimedAddress(h) ==
    IF IsSome(TextOf(h.xff)) THEN Some(Trim(SplitFirst(Unwrap(TextOf(h.xff)))))
    ELSE IF IsSome(TextOf(h.xri)) THEN Some(Unwrap(TextOf(h.xri)))
    ELSE None

\* C19: the address hashed for a redirect is the first listed address of the
\* forwarded-for header when that header yields one, otherwise the real-IP
\* header's address when present, otherwise none; an unusable forwarded-for
\* header with a usable real-IP header is hashed from the real-IP header.
C19_AddressPrecedence ==
    \A p \in Procs : \A i \in TasksOf(p) :
        /\ tasks[i].addr = ClaimedAddress(req[p].headers)
        /\ tasks[i].ip_hash =
              IF IsSome(ClaimedAddress(req[p].headers))
              THEN Some(hash_ip(Unwrap(ClaimedAddress(req[p].headers))))
              ELSE None

\* C20: the ip_hash a capture task carries and the ip_hash of every click
\* event written is none exactly when no address was selected, and otherwise
\* a 64-character digest of the selected address, never the address text; tasks with the same selected address carry the same
\* ip_hash, and each event holds the ip_hash of the task that wrote it.
C20_OnlyHashPersisted ==
    /\ \A i \in 1..Len(tasks) :
          /\ tasks[i].ip_hash = None <=> tasks[i].addr = None
          /\ IsSome(tasks[i].ip_hash)
                => /\ DOMAIN Unwrap(tasks[i].ip_hash) = {"sha256_of", "len"}
                   /\ Unwrap(tasks[i].ip_hash).len = 64
                   /\ Unwrap(tasks[i].ip_hash).sha256_of = Unwrap(tasks[i].addr)
          /\ \A j \in 1..Len(tasks) :
                tasks[i].addr = tasks[j].addr => tasks[i].ip_hash = tasks[j].ip_hash
    /\ \A n \in 1..Len(analytics) :
          /\ IsSome(analytics[n].ip_hash)
                => Unwrap(analytics[n].ip_hash).len = 64
          /\ \E i \in 1..Len(tasks) :
                /\ tasks[i].rec = "ok"
                /\ analytics[n].link_id = tasks[i].link_id
                /\ analytics[n].ip_hash = tasks[i].ip_hash
    /\ Cardinality({analytics[n].ip_hash : n \in 1..Len(analytics)} \ {None})
          <= Cardinality({tasks[i].addr : i \in 1..Len(tasks)} \ {None})

\* two redirects that named the same address in different headers wrote two
\* click events with one ip_hash
C20_Witness ==
    \E i \in 1..Len(tasks), j \in 1..Len(tasks) :
        /\ i # j
        /\ Len(analytics) = 2
        /\ tasks[i].rec = "ok" /\ tasks[j].rec = "ok"
        /\ tasks[i].addr = Some(<<"1">>) /\ tasks[j].addr = Some(<<"1">>)
        /\ analytics[1].ip_hash = analytics[2].ip_hash
        /\ analytics[1].ip_hash = Some(hash_ip(<<"1">>))
        /\ RepoGetUniqueVisitors(links, analytics, tasks[i].key) = 1

AggregateCalls == {"get_total_clicks", "get_unique_visitors", "get_top_referrers",
                   "get_device_breakdown", "get_country_stats", "get_browser_stats",
                   "get_time_series"}

\* C21: for every requested days value the window that reaches the store's
\* time-series query is the requested one cut to at most 365, and summarize
\* returns none, having issued no aggregate query, exactly when no link
\* resolves for the key at that moment.
C21_WindowAndNone ==
    [][\A p \in Procs :
         /\ (pc[p] = "s_series" /\ pc'[p] = "done")
               => LET c == LastCall(trace'[p]) IN
                  /\ c.call = "get_time_series"
                  /\ c.days <= MaxDays
                  /\ c.days = IF req[p].requested <= MaxDays
                              THEN req[p].requested ELSE MaxDays
         /\ (pc[p] = "s_find" /\ pc'[p] # "s_find" /\ loc'[p].err # ErrStore)
               => /\ loc'[p].res = "none"
                        <=> StoreOnlyResolve(links, req[p].key, now) = None
                  /\ loc'[p].res = "none"
                        => /\ pc'[p] = "done"
                           /\ \A i \in 1..Len(trace'[p]) :
                                 trace'[p][i].call \notin AggregateCalls]_vars

\* every record_click has completed: its update and its invalidation
ClicksCompleted == \A i \in 1..Len(tasks) : tasks[i].pc \in {"rec", "end"}

\* C22: once a resolve and a concurrent record_click of one key have both
\* completed, the cache holds no entry for the key or an entry whose
\* click_count is the stored row's.
C22_NoStaleCountAfterRace ==
    (AllIdle /\ ClicksCompleted)
        => \A k \in Keys : \A r \in links :
              (IsSome(cache[k]) /\ Unwrap(cache[k]).link.id = r.id)
                  => Unwrap(cache[k]).link.click_count = r.click_count

\* C23: once a delete of a key has returned true and a concurrent resolve
\* of the key has completed, the cache holds no entry for the key, so no
\* later resolve can be answered with the deleted link.
C23_NoEntryAfterDelete ==
    \A p \in Procs, q \in Procs :
        (/\ req[p].op = "delete" /\ pc[p] = "done" /\ loc[p].res = "ok"
         /\ req[q].op \in GetOps /\ pc[q] = "done" /\ req[q].key = req[p].key)
            => /\ cache[req[p].key] = None
               /\ CacheGet(cache, req[p].key, now) = None

\* C24: between operations run one at a time (create, resolve,
\* record_click, delete), every cache entry whose link is not expired is
\* the store's current row for its key, click_count included; the cache
\* holds no live link that the store does not hold.
C24_CacheIsStore ==
    Quiescent
        => \A k \in AllKeys :
              (IsSome(cache[k]) /\ ~is_expired(Unwrap(cache[k]).link, now))
                  => /\ Unwrap(cache[k]).link.key = k
                     /\ Unwrap(cache[k]).link \in links

\* a link was created and resolved, a click was counted and the entry
\* dropped, and the next resolve cached the row with its count of 1
C24_Witness ==
    /\ Quiescent
    /\ \E k \in Keys, i \in 1..Len(tasks) :
          /\ tasks[i].key = k /\ tasks[i].inc = "ok" /\ tasks[i].pc = "end"
          /\ IsSome(cache[k])
          /\ Unwrap(cache[k]).link.click_count = 1
          /\ Unwrap(cache[k]).link \in links

\* the stored click_count of row r is the number of its click events
CountMatchesEvents(r) ==
    r.click_count
        = Cardinality({n \in 1..Len(analytics) : analytics[n].link_id = r.id})

\* C25: once every dispatched capture task has finished, the click_count
\* of each stored link equals the number of click events persisted for it,
\* whichever of the increment step and the event-write step succeeded.
C25_CountEqualsEvents ==
    (\A i \in 1..Len(tasks) : tasks[i].pc = "end")
        => \A r \in links : CountMatchesEvents(r)

\* the counts of a device breakdown
DeviceCounts(d) == {d.desktop, d.mobile, d.tablet, d.bot, d.other}

\* C26: in every summary returned, unique_visitors, the count of each
\* ranked entry and each device count are at most total_clicks, and no
\* percentage is above 100, also when click events of the key are written
\* between the summary's aggregate queries.
C26_CountsWithinTotal ==
    \A p \in Procs :
        (req[p].op = "summary" /\ pc[p] = "done" /\ ret[p].status = 200)
            => LET b == ret[p].body IN
               /\ b.unique_visitors <= b.total_clicks
               /\ \A c \in DeviceCounts(b.device_breakdown) : c <= b.total_clicks
               /\ \A l \in RankedLists(b) : \A i \in 1..Len(l) :
                     /\ l[i].count <= b.total_clicks
                     /\ l[i].percentage.num <= 100 * l[i].percentage.den

\* handler p's store call of this step failed
StoreCallFailed(p) ==
    /\ pc'[p] # pc[p]
    /\ Len(trace'[p]) = Len(trace[p]) + 1
    /\ LastCall(trace'[p]).out \in {"err", "duplicate key"}

\* C27: when a store call of create or delete fails, the step leaves the
\* cache as it was and the handler returns the error; after a failed
\* insert the cache has no entry for the key; a record_click whose update
\* failed returns the error without invalidating, then or later.
C27_FailedWriteKeepsCache ==
    [][/\ \A p \in Procs :
            (req[p].op \in {"create", "delete"} /\ StoreCallFailed(p))
                => /\ cache' = cache
                   /\ pc'[p] = "done"
                   /\ loc'[p].res = "err" /\ loc'[p].err = ErrStore
                   /\ ret'[p] = into_response(AppErrorInternal(ErrStore))
                   /\ LastCall(trace'[p]).call = "create"
                         => cache'[Unwrap(loc[p].key)] = None
       /\ \A i \in 1..Len(tasks) :
            /\ (tasks[i].pc = "inc" /\ tasks'[i].inc = "err")
                  => cache' = cache /\ links' = links
            /\ (tasks[i].inc = "err" /\ tasks'[i] # tasks[i])
                  => cache' = cache]_vars

\* a record_click and then a delete of a cached link failed at the store,
\* and the entry is still cached
C27_Witness ==
    \E p \in Procs, i \in 1..Len(tasks) :
        /\ req[p].op = "delete" /\ pc[p] = "done" /\ ret[p].status = 500
        /\ trace[p] = <<Call("delete", "err")>>
        /\ tasks[i].key = req[p].key /\ tasks[i].inc = "err" /\ tasks[i].pc = "end"
        /\ IsSome(CacheGet(cache, req[p].key, now))
        /\ Unwrap(cache[req[p].key]).link \in links

\* C28: while a row with a key is stored, expired or not, a create with
\* that key as custom alias fails with the alias-taken error and changes no
\* row, and a resolve of the key of an expired row returns none; a row is
\* inserted only under a key that no row has, and rows go away only by a
\* delete of their key.
C28_ExpiredKeyReserved ==
    [][/\ \A p \in Procs :
            /\ (/\ pc[p] = "c_exists" /\ pc'[p] # "c_exists"
                /\ HasRow(links, Unwrap(req[p].custom_alias))
                /\ LastCall(trace'[p]).out # "err")
                  => /\ pc'[p] = "done"
                     /\ loc'[p].res = "err" /\ loc'[p].err = ErrAliasExists
                     /\ ret'[p].status = 500
                     /\ links' = links
            /\ (/\ GetReturns(p) /\ loc'[p].err # ErrStore
                /\ \E r \in links : r.key = req[p].key /\ ExpiredAt(r, now))
                  => loc'[p].res = "none" /\ links' = links
       /\ \A r \in links' : (\A o \in links : o.id # r.id) => ~HasRow(links, r.key)
       /\ \A r \in links : ~HasRow(links', r.key)
            => \E p \in Procs : /\ pc[p] = "x_delete" /\ pc'[p] # "x_delete"
                                /\ req[p].key = r.key]_vars

\* a create with the key of an expired, still stored link as its alias was
\* refused as alias taken
C28_Witness ==
    \E p \in Procs, r \in links :
        /\ req[p].op = "create" /\ pc[p] = "done"
        /\ req[p].custom_alias = Some(r.key)
        /\ ExpiredAt(r, loc[p].at)
        /\ loc[p].err = ErrAliasExists
        /\ trace[p] = <<Call("exists", "true")>>
        /\ removed[r.key] = 0

====
